---- MODULE Spec2Model ----
(***************************************************************************)
(* Coupon service (src/src/coupon/coupon_service.rs) over a coupon table.  *)
(* Every request is handled by its own task; a task is suspended at each   *)
(* `.await` on the persistence accessor, so each repository call is one    *)
(* atomic step and steps of different requests interleave freely.          *)
(*                                                                         *)
(* The persistence accessor (coupon_repository), the row conversion        *)
(* (TryFrom<Coupon> for CouponResponse), the HTTP handlers and the         *)
(* authentication gate are not part of the available sources; they are     *)
(* modelled from the written specification (sections 4.1, 4.2, 4.4, 6).    *)
(***************************************************************************)
EXTENDS Integers, Sequences, FiniteSets, TLC

\* ------------------------------------------------------------- bounds
\* the auto-increment counter stops here
MaxId == 2

\* request tasks in flight at the same time
Procs == {1, 2}
Ids == 1..MaxId
Codes == {"A", "B"}
\* discounts of the stored domain, and those the API domain can represent
Discounts == {10, 20}
ApiDiscounts == {10}
UsageCounts == {5}

ApiKey == "secret"
Keys == {"secret", "wrong"}

VARIABLES
  table,        \* the coupon table: rows in insertion order
  nextId,       \* the table's auto-increment counter
  issued,       \* TRUE once /authenticate has issued a session cookie
  pc,           \* per request task: the await point it is suspended at
  req,          \* per request task: the request being handled
  res,          \* per request task: the outcome returned to the caller
  stat,         \* per request task: what the task has done so far (ghost)
  staleOk       \* operations seen to return success for a row that was gone (ghost)

vars == <<table, nextId, issued, pc, req, res, stat, staleOk>>

\* ------------------------------------------------------------- rows
Row(id, code, discount, muc) ==
  [id |-> id, code |-> code, discount |-> discount, max_usage_count |-> muc]

NoReq == [op |-> "none", cookie |-> "none", key |-> "", id |-> 0, code |-> "",
          discount |-> 0, max_usage_count |-> 0]
NoRes == [kind |-> "none", body |-> <<>>]
NoStat == [lookups |-> 0, writes |-> 0, affected |-> 0, newId |-> 0, cause |-> "",
           peerOk |-> FALSE]

Ok(body) == [kind |-> "Ok", body |-> body]
Err(kind) == [kind |-> kind, body |-> <<>>]

IdsOf(tbl) == {tbl[i].id : i \in DOMAIN tbl}
CodesOf(tbl) == {tbl[i].code : i \in DOMAIN tbl}

\* ------------------------------------------------------------- conversion
\* TryFrom<Coupon> for CouponResponse: the stored discount must be
\* representable in the API domain
Convertible(row) == row.discount \in ApiDiscounts

TryInto(row) ==
  [id |-> row.id, code |-> row.code, discount |-> row.discount,
   max_usage_count |-> row.max_usage_count]

\* ------------------------------------------------------------- repository
First(S) == CHOOSE i \in S : \A j \in S : i <= j

\* fetch_optional: zero or one row, as a sequence
RepoGetById(id, tbl) ==
  LET S == {i \in DOMAIN tbl : tbl[i].id = id}
  IN IF S = {} THEN <<>> ELSE <<tbl[First(S)]>>

RepoGetByCode(code, tbl) ==
  LET S == {i \in DOMAIN tbl : tbl[i].code = code}
  IN IF S = {} THEN <<>> ELSE <<tbl[First(S)]>>

RepoGetAll(tbl) == tbl

\* INSERT into a table without the unique key on code
RepoInsertNoUnique(r, tbl, nid) ==
  [ok |-> TRUE, table |-> Append(tbl, Row(nid, r.code, r.discount, r.max_usage_count)),
   id |-> nid]

\* INSERT: the unique key on code rejects a stored code; the id is generated
RepoInsert(r, tbl, nid) ==
  IF r.code \in CodesOf(tbl)
  THEN [ok |-> FALSE, table |-> tbl, id |-> 0]
  ELSE [ok |-> TRUE,
        table |-> Append(tbl, Row(nid, r.code, r.discount, r.max_usage_count)),
        id |-> nid]

\* UPDATE ... WHERE id = ?: replaces code, discount and max_usage_count
RepoUpdate(r, tbl) ==
  LET hit == {i \in DOMAIN tbl : tbl[i].id = r.id}
      clash == {i \in DOMAIN tbl : tbl[i].id # r.id /\ tbl[i].code = r.code}
  IN IF hit # {} /\ clash # {}
     THEN [ok |-> FALSE, table |-> tbl, rows |-> 0]
     ELSE [ok |-> TRUE,
           table |-> [i \in DOMAIN tbl |->
                        IF i \in hit
                        THEN Row(r.id, r.code, r.discount, r.max_usage_count)
                        ELSE tbl[i]],
           rows |-> Cardinality(hit)]

Keep(tbl, S) ==
  LET RECURSIVE go(_)
      go(i) == IF i > Len(tbl) THEN <<>>
               ELSE (IF i \in S THEN <<tbl[i]>> ELSE <<>>) \o go(i + 1)
  IN go(1)

\* DELETE ... WHERE id = ?
RepoDeleteById(id, tbl) ==
  LET hit == {i \in DOMAIN tbl : tbl[i].id = id}
  IN [table |-> Keep(tbl, DOMAIN tbl \ hit), rows |-> Cardinality(hit)]

\* DELETE ... WHERE code = ?
RepoDeleteByCode(code, tbl) ==
  LET hit == {i \in DOMAIN tbl : tbl[i].code = code}
  IN [table |-> Keep(tbl, DOMAIN tbl \ hit), rows |-> Cardinality(hit)]

\* ------------------------------------------------------------- service: reads
\* flat_map over the rows: a row that fails try_into() is logged and skipped
RECURSIVE FlatMapTryInto(_)
FlatMapTryInto(rows) ==
  IF rows = <<>> THEN <<>>
  ELSE (IF Convertible(Head(rows)) THEN <<TryInto(Head(rows))>> ELSE <<>>)
       \o FlatMapTryInto(Tail(rows))

\* collecting into a Result instead: the first failing row fails the list
get_all_strict(tbl, up) ==
  IF ~up THEN Err("UnexpectedError")
  ELSE IF \E i \in DOMAIN tbl : ~Convertible(tbl[i]) THEN Err("InternalError")
  ELSE Ok(FlatMapTryInto(RepoGetAll(tbl)))

get_all(tbl, up) ==
  IF ~up THEN Err("UnexpectedError")
  ELSE Ok(FlatMapTryInto(RepoGetAll(tbl)))

get_by_id(id, tbl, up) ==
  IF ~up THEN Err("UnexpectedError")
  ELSE LET result == RepoGetById(id, tbl)
       IN IF result = <<>> THEN Err("NotFound")
          ELSE IF ~Convertible(result[1]) THEN Err("InternalError")
          ELSE Ok(<<TryInto(result[1])>>)

\* a row that fails conversion reported as absent
get_by_code_lenient(code, tbl, up) ==
  IF ~up THEN Err("UnexpectedError")
  ELSE LET result == RepoGetByCode(code, tbl)
       IN IF result = <<>> \/ ~Convertible(result[1]) THEN Err("NotFound")
          ELSE Ok(<<TryInto(result[1])>>)

get_by_code(code, tbl, up) ==
  IF ~up THEN Err("UnexpectedError")
  ELSE LET result == RepoGetByCode(code, tbl)
       IN IF result = <<>> THEN Err("NotFound")
          ELSE IF ~Convertible(result[1]) THEN Err("InternalError")
          ELSE Ok(<<TryInto(result[1])>>)

\* ------------------------------------------------------------- handlers
\* cookies a client can present: a signed one only once one was issued
Presentable == {"none", "forged"} \cup (IF issued THEN {"signed"} ELSE {})

\* a gate that only looks for the presence of a cookie
AuthorizedAnyCookie(cookie) == cookie # "none"

\* the authentication gate in front of every coupon endpoint
Authorized(cookie) == cookie = "signed"

CouponOps == {"get_all", "get_by_id", "get_by_code", "insert", "update",
              "delete_by_id", "delete_by_code"}

\* a lower-layer failure of one repository call
Down == [NoStat EXCEPT !.cause = "down"]

\* a finished request's response leaves before the next repository call runs
NoneDone == \A q \in Procs : pc[q] # "done"

Begin(p, r, next, result, st) ==
  /\ NoneDone
  /\ pc[p] = "idle"
  /\ Authorized(r.cookie)
  /\ pc' = [pc EXCEPT ![p] = next]
  /\ req' = [req EXCEPT ![p] = r]
  /\ res' = [res EXCEPT ![p] = result]
  /\ stat' = [stat EXCEPT ![p] = st]

Step(p, next, result, st) ==
  /\ NoneDone
  /\ pc' = [pc EXCEPT ![p] = next]
  /\ res' = [res EXCEPT ![p] = result]
  /\ stat' = [stat EXCEPT ![p] = st]
  /\ UNCHANGED req

\* POST /authenticate {api_key}
Authenticate(p) ==
  \E key \in Keys :
    /\ NoneDone
    /\ pc[p] = "idle"
    /\ pc' = [pc EXCEPT ![p] = "done"]
    /\ req' = [req EXCEPT ![p] = [NoReq EXCEPT !.op = "authenticate", !.key = key]]
    /\ res' = [res EXCEPT ![p] = IF key = ApiKey THEN Ok(<<>>) ELSE Err("Unauthorized")]
    /\ issued' = (issued \/ key = ApiKey)
    /\ UNCHANGED <<table, nextId, stat, staleOk>>

\* a coupon endpoint reached without a valid session cookie
Reject(p) ==
  \E op \in CouponOps, c \in Presentable :
    /\ NoneDone
    /\ pc[p] = "idle"
    /\ ~Authorized(c)
    /\ pc' = [pc EXCEPT ![p] = "done"]
    /\ req' = [req EXCEPT ![p] = [NoReq EXCEPT !.op = op, !.cookie = c]]
    /\ res' = [res EXCEPT ![p] = Err("AuthError")]
    /\ UNCHANGED <<table, nextId, issued, stat, staleOk>>

GetAll(p) ==
  \E c \in Presentable, up \in BOOLEAN :
    /\ Begin(p, [NoReq EXCEPT !.op = "get_all", !.cookie = c], "done",
             get_all(table, up),
             [NoStat EXCEPT !.lookups = 1, !.cause = IF up THEN "" ELSE "down"])
    /\ UNCHANGED <<table, nextId, issued, staleOk>>

GetById(p) ==
  \E c \in Presentable, id \in Ids, up \in BOOLEAN :
    /\ Begin(p, [NoReq EXCEPT !.op = "get_by_id", !.cookie = c, !.id = id], "done",
             get_by_id(id, table, up),
             [NoStat EXCEPT !.lookups = 1, !.cause = IF up THEN "" ELSE "down"])
    /\ UNCHANGED <<table, nextId, issued, staleOk>>

GetByCode(p) ==
  \E c \in Presentable, code \in Codes, up \in BOOLEAN :
    /\ Begin(p, [NoReq EXCEPT !.op = "get_by_code", !.cookie = c, !.code = code], "done",
             get_by_code(code, table, up),
             [NoStat EXCEPT !.lookups = 1, !.cause = IF up THEN "" ELSE "down"])
    /\ UNCHANGED <<table, nextId, issued, staleOk>>

\* insert, lines 51-59: build CouponInsert, coupon_repository::insert
InsertPersist(p) ==
  \E c \in Presentable, code \in Codes, d \in Discounts, m \in UsageCounts,
     up \in BOOLEAN :
    LET r == [NoReq EXCEPT !.op = "insert", !.cookie = c, !.code = code,
                           !.discount = d, !.max_usage_count = m]
        w == RepoInsert(r, table, nextId)
    IN /\ nextId <= MaxId
       /\ IF ~up
          THEN /\ Begin(p, r, "done", Err("UnexpectedError"), Down)
               /\ UNCHANGED <<table, nextId>>
          ELSE IF ~w.ok
          THEN /\ Begin(p, r, "done", Err("UnexpectedError"),
                        [NoStat EXCEPT !.cause = "unique"])
               /\ UNCHANGED <<table, nextId>>
          ELSE /\ Begin(p, r, "ins_fetch", NoRes,
                        [NoStat EXCEPT !.writes = 1, !.affected = 1, !.newId = w.id])
               /\ table' = w.table
               /\ nextId' = nextId + 1
       /\ UNCHANGED <<issued, staleOk>>

\* insert, lines 61-67: re-fetch by the inserted id, convert
InsertRefetch(p) ==
  \E up \in BOOLEAN :
    /\ pc[p] = "ins_fetch"
    /\ LET got == RepoGetById(stat[p].newId, table)
           out == IF ~up THEN Err("UnexpectedError")
                  ELSE IF got = <<>> THEN Err("NotFound")
                  ELSE IF ~Convertible(got[1]) THEN Err("InternalError")
                  ELSE Ok(<<TryInto(got[1])>>)
       IN Step(p, "done", out,
               [stat[p] EXCEPT !.lookups = @ + 1, !.cause = IF up THEN "" ELSE "down"])
    /\ UNCHANGED <<table, nextId, issued, staleOk>>

\* update without its pre-check
UpdateCheckSkipped(p) ==
  \E c \in Presentable, id \in Ids, code \in Codes, d \in Discounts, m \in UsageCounts :
    LET r == [NoReq EXCEPT !.op = "update", !.cookie = c, !.id = id, !.code = code,
                           !.discount = d, !.max_usage_count = m]
    IN /\ Begin(p, r, "upd_write", NoRes, NoStat)
       /\ UNCHANGED <<table, nextId, issued, staleOk>>

\* update, lines 71-75: the existence pre-check
UpdateCheck(p) ==
  \E c \in Presentable, id \in Ids, code \in Codes, d \in Discounts, m \in UsageCounts,
     up \in BOOLEAN :
    LET r == [NoReq EXCEPT !.op = "update", !.cookie = c, !.id = id, !.code = code,
                           !.discount = d, !.max_usage_count = m]
        st == [NoStat EXCEPT !.lookups = 1]
    IN /\ IF ~up THEN Begin(p, r, "done", Err("UnexpectedError"),
                            [st EXCEPT !.cause = "down"])
          ELSE IF RepoGetById(id, table) = <<>>
          THEN Begin(p, r, "done", Err("NotFound"), st)
          ELSE Begin(p, r, "upd_write", NoRes, st)
       /\ UNCHANGED <<table, nextId, issued, staleOk>>

\* update that reports zero rows affected as NotFound
UpdateWriteChecked(p) ==
  \E up \in BOOLEAN :
    /\ pc[p] = "upd_write"
    /\ LET w == RepoUpdate(req[p], table)
       IN IF ~up
          THEN /\ Step(p, "done", Err("UnexpectedError"), [stat[p] EXCEPT !.cause = "down"])
               /\ UNCHANGED <<table, staleOk>>
          ELSE IF ~w.ok
          THEN /\ Step(p, "done", Err("UnexpectedError"),
                       [stat[p] EXCEPT !.writes = @ + 1, !.cause = "unique"])
               /\ UNCHANGED <<table, staleOk>>
          ELSE IF w.rows = 0
          THEN /\ Step(p, "done", Err("NotFound"), [stat[p] EXCEPT !.writes = @ + 1])
               /\ UNCHANGED <<table, staleOk>>
          ELSE /\ Step(p, "done", Ok(<<>>),
                       [stat[p] EXCEPT !.writes = @ + 1, !.affected = @ + w.rows])
               /\ table' = w.table
               /\ UNCHANGED staleOk
    /\ UNCHANGED <<nextId, issued>>

\* update, lines 77-87: coupon_repository::update
UpdateWrite(p) ==
  \E up \in BOOLEAN :
    /\ pc[p] = "upd_write"
    /\ LET w == RepoUpdate(req[p], table)
       IN IF ~up
          THEN /\ Step(p, "done", Err("UnexpectedError"), [stat[p] EXCEPT !.cause = "down"])
               /\ UNCHANGED <<table, staleOk>>
          ELSE IF ~w.ok
          THEN /\ Step(p, "done", Err("UnexpectedError"),
                       [stat[p] EXCEPT !.writes = @ + 1, !.cause = "unique"])
               /\ UNCHANGED <<table, staleOk>>
          ELSE /\ Step(p, "done", Ok(<<>>),
                       [stat[p] EXCEPT !.writes = @ + 1, !.affected = @ + w.rows])
               /\ table' = w.table
               /\ staleOk' = IF w.rows = 0 THEN staleOk \cup {"update"} ELSE staleOk
    /\ UNCHANGED <<nextId, issued>>

\* delete_by_id that returns after its pre-check, deleting nothing
DeleteByIdCheckReturnsEarly(p) ==
  \E c \in Presentable, id \in Ids :
    /\ Begin(p, [NoReq EXCEPT !.op = "delete_by_id", !.cookie = c, !.id = id], "done",
             Ok(<<>>), [NoStat EXCEPT !.lookups = 1])
    /\ RepoGetById(id, table) # <<>>
    /\ UNCHANGED <<table, nextId, issued, staleOk>>

\* delete_by_id, lines 91-93: the existence pre-check
DeleteByIdCheck(p) ==
  \E c \in Presentable, id \in Ids, up \in BOOLEAN :
    LET r == [NoReq EXCEPT !.op = "delete_by_id", !.cookie = c, !.id = id]
        st == [NoStat EXCEPT !.lookups = 1]
    IN /\ IF ~up THEN Begin(p, r, "done", Err("UnexpectedError"),
                            [st EXCEPT !.cause = "down"])
          ELSE IF RepoGetById(id, table) = <<>>
          THEN Begin(p, r, "done", Err("NotFound"), st)
          ELSE Begin(p, r, "del_id_1", NoRes, st)
       /\ UNCHANGED <<table, nextId, issued, staleOk>>

\* delete_by_id, lines 95-96: coupon_repository::delete_by_id
DeleteByIdFirst(p) ==
  \E up \in BOOLEAN :
    /\ pc[p] = "del_id_1"
    /\ LET w == RepoDeleteById(req[p].id, table)
       IN IF ~up
          THEN /\ Step(p, "done", Err("UnexpectedError"), [stat[p] EXCEPT !.cause = "down"])
               /\ UNCHANGED table
          ELSE /\ Step(p, "del_id_2", NoRes,
                       [stat[p] EXCEPT !.writes = @ + 1, !.affected = @ + w.rows])
               /\ table' = w.table
    /\ UNCHANGED <<nextId, issued, staleOk>>

\* delete_by_id, lines 98-100: coupon_repository::delete_by_id once more
DeleteByIdSecond(p) ==
  \E up \in BOOLEAN :
    /\ pc[p] = "del_id_2"
    /\ LET w == RepoDeleteById(req[p].id, table)
       IN IF ~up
          THEN /\ Step(p, "done", Err("UnexpectedError"), [stat[p] EXCEPT !.cause = "down"])
               /\ UNCHANGED <<table, staleOk>>
          ELSE /\ pc' = [pc EXCEPT ![p] = "done"]
               /\ res' = [res EXCEPT ![p] = Ok(<<>>)]
               /\ stat' = [q \in Procs |->
                             IF q = p
                             THEN [stat[p] EXCEPT !.writes = @ + 1, !.affected = @ + w.rows]
                             ELSE IF pc[q] \in {"del_id_1", "del_id_2"}
                                     /\ req[q].id = req[p].id
                             THEN [stat[q] EXCEPT !.peerOk = TRUE]
                             ELSE stat[q]]
               /\ NoneDone
               /\ UNCHANGED req
               /\ table' = w.table
               /\ staleOk' = IF stat[p].peerOk
                             THEN staleOk \cup {"delete_by_id"} ELSE staleOk
    /\ UNCHANGED <<nextId, issued>>

\* delete_by_code, lines 104-106: the existence pre-check
DeleteByCodeCheck(p) ==
  \E c \in Presentable, code \in Codes, up \in BOOLEAN :
    LET r == [NoReq EXCEPT !.op = "delete_by_code", !.cookie = c, !.code = code]
        st == [NoStat EXCEPT !.lookups = 1]
    IN /\ IF ~up THEN Begin(p, r, "done", Err("UnexpectedError"),
                            [st EXCEPT !.cause = "down"])
          ELSE IF RepoGetByCode(code, table) = <<>>
          THEN Begin(p, r, "done", Err("NotFound"), st)
          ELSE Begin(p, r, "del_code_1", NoRes, st)
       /\ UNCHANGED <<table, nextId, issued, staleOk>>

\* delete_by_code, lines 108-109: coupon_repository::delete_by_code
DeleteByCodeFirst(p) ==
  \E up \in BOOLEAN :
    /\ pc[p] = "del_code_1"
    /\ LET w == RepoDeleteByCode(req[p].code, table)
       IN IF ~up
          THEN /\ Step(p, "done", Err("UnexpectedError"), [stat[p] EXCEPT !.cause = "down"])
               /\ UNCHANGED table
          ELSE /\ Step(p, "del_code_2", NoRes,
                       [stat[p] EXCEPT !.writes = @ + 1, !.affected = @ + w.rows])
               /\ table' = w.table
    /\ UNCHANGED <<nextId, issued, staleOk>>

\* delete_by_code, lines 111-113: coupon_repository::delete_by_code once more
DeleteByCodeSecond(p) ==
  \E up \in BOOLEAN :
    /\ pc[p] = "del_code_2"
    /\ LET w == RepoDeleteByCode(req[p].code, table)
       IN IF ~up
          THEN /\ Step(p, "done", Err("UnexpectedError"), [stat[p] EXCEPT !.cause = "down"])
               /\ UNCHANGED table
          ELSE /\ Step(p, "done", Ok(<<>>),
                       [stat[p] EXCEPT !.writes = @ + 1, !.affected = @ + w.rows])
               /\ table' = w.table
    /\ UNCHANGED <<nextId, issued, staleOk>>

\* the response leaves; the task ends
Respond(p) ==
  /\ pc[p] = "done"
  /\ pc' = [pc EXCEPT ![p] = "idle"]
  /\ req' = [req EXCEPT ![p] = NoReq]
  /\ res' = [res EXCEPT ![p] = NoRes]
  /\ stat' = [stat EXCEPT ![p] = NoStat]
  /\ UNCHANGED <<table, nextId, issued, staleOk>>

Init ==
  /\ table = <<>>
  /\ nextId = 1
  /\ issued = FALSE
  /\ pc = [p \in Procs |-> "idle"]
  /\ req = [p \in Procs |-> NoReq]
  /\ res = [p \in Procs |-> NoRes]
  /\ stat = [p \in Procs |-> NoStat]
  /\ staleOk = {}

Next ==
  \/ \E p \in Procs : Authenticate(p)
  \/ \E p \in Procs : Reject(p)
  \/ \E p \in Procs : GetAll(p)
  \/ \E p \in Procs : GetById(p)
  \/ \E p \in Procs : GetByCode(p)
  \/ \E p \in Procs : InsertPersist(p)
  \/ \E p \in Procs : InsertRefetch(p)
  \/ \E p \in Procs : UpdateCheck(p)
  \/ \E p \in Procs : UpdateWrite(p)
  \/ \E p \in Procs : DeleteByIdCheck(p)
  \/ \E p \in Procs : DeleteByIdFirst(p)
  \/ \E p \in Procs : DeleteByIdSecond(p)
  \/ \E p \in Procs : DeleteByCodeCheck(p)
  \/ \E p \in Procs : DeleteByCodeFirst(p)
  \/ \E p \in Procs : DeleteByCodeSecond(p)
  \/ \E p \in Procs : Respond(p)

Spec == Init /\ [][Next]_vars

\* ------------------------------------------------------------- properties
Mutating == {"insert", "update", "delete_by_id", "delete_by_code"}
Errors == {"NotFound", "InternalError", "UnexpectedError"}

\* request p returns to its caller in this step
Returns(p) == pc[p] # "done" /\ pc'[p] = "done"

\* request p, a call of operation op, passes the gate and makes its first
\* repository call in this step
Starts(p, op) ==
  /\ pc[p] = "idle"
  /\ pc'[p] # "idle"
  /\ req'[p].op = op
  /\ res'[p].kind # "AuthError"

\* C1: a successful insert returns the code, discount and max_usage_count of
\* its request, under the id the insert statement assigned, whatever the
\* other requests do meanwhile.
C1_InsertReturnsRequest ==
  \A p \in Procs :
    (pc[p] = "done" /\ req[p].op = "insert" /\ res[p].kind = "Ok") =>
      /\ Len(res[p].body) = 1
      /\ res[p].body[1].id = stat[p].newId
      /\ res[p].body[1].code = req[p].code
      /\ res[p].body[1].discount = req[p].discount
      /\ res[p].body[1].max_usage_count = req[p].max_usage_count

C3_UpdateMissingIdNotFound ==
  [][ \A p \in Procs :
        /\ (/\ Starts(p, "update")
            /\ stat'[p].cause # "down"
            /\ req'[p].id \notin IdsOf(table)) =>
             /\ pc'[p] = "done"
             /\ res'[p].kind = "NotFound"
             /\ stat'[p].writes = 0
             /\ table' = table
        /\ (pc[p] = "done" /\ pc'[p] # "done") => table' = table
    ]_vars

C3_Witness ==
  \E p \in Procs :
    /\ pc[p] = "done"
    /\ req[p].op = "update"
    /\ res[p].kind = "NotFound"
    /\ req[p].id \notin IdsOf(table)
    /\ table # <<>>

\* C4: no two stored coupons share an id and no two share a code.
C4_IdAndCodeUnique ==
  \A i, j \in DOMAIN table :
    i # j => table[i].id # table[j].id /\ table[i].code # table[j].code

\* an update to the code of another stored coupon has been refused
C4_Witness ==
  \E p \in Procs :
    /\ pc[p] = "done"
    /\ req[p].op = "update"
    /\ stat[p].cause = "unique"
    /\ \E i, j \in DOMAIN table :
         i # j /\ table[i].id = req[p].id /\ table[j].code = req[p].code

\* C5: a mutating operation that returns an error has added, changed or
\* removed no row.
C5_ErrorLeavesTableAlone ==
  \A p \in Procs :
    (pc[p] = "done" /\ req[p].op \in Mutating /\ res[p].kind \in Errors) =>
      stat[p].affected = 0

\* C6: get_all whose list query succeeds returns success with exactly the
\* convertible rows, each once, so N-k entries for k failing rows of N; it
\* fails only when the list query fails.
C6_GetAllSkipsFailingRows ==
  [][ \A p \in Procs :
        Starts(p, "get_all") =>
          LET body == res'[p].body
              bad == {i \in DOMAIN table : ~Convertible(table[i])}
          IN /\ pc'[p] = "done"
             /\ (res'[p].kind # "Ok") <=> (stat'[p].cause = "down")
             /\ res'[p].kind = "Ok" =>
                  /\ Len(body) = Len(table) - Cardinality(bad)
                  /\ \A i \in DOMAIN table \ bad :
                       Cardinality({j \in DOMAIN body : body[j].id = table[i].id}) = 1
                  /\ \A j \in DOMAIN body :
                       \E i \in DOMAIN table \ bad :
                         /\ body[j].id = table[i].id
                         /\ body[j].code = table[i].code
                         /\ body[j].discount = table[i].discount
                         /\ body[j].max_usage_count = table[i].max_usage_count
    ]_vars

C6_Witness ==
  \E p \in Procs :
    /\ pc[p] = "done"
    /\ req[p].op = "get_all"
    /\ res[p].kind = "Ok"
    /\ Len(table) = 2
    /\ Len(res[p].body) = 1
    /\ \E i \in DOMAIN table : ~Convertible(table[i])

\* C7: for every stored coupon, get_by_id of its id and get_by_code of its
\* code have the same outcome: the same representation when the row
\* converts, InternalError in both when it does not; a key no row has
\* yields NotFound in both.
C7_GetByIdAgreesWithGetByCode ==
  /\ \A i \in DOMAIN table :
       LET byId == get_by_id(table[i].id, table, TRUE)
           byCode == get_by_code(table[i].code, table, TRUE)
       IN /\ byId = byCode
          /\ byId.kind = IF Convertible(table[i]) THEN "Ok" ELSE "InternalError"
          /\ Convertible(table[i]) =>
               /\ byId.body[1].id = table[i].id
               /\ byCode.body[1].code = table[i].code
  /\ \A id \in Ids \ IdsOf(table) : get_by_id(id, table, TRUE).kind = "NotFound"
  /\ \A code \in Codes \ CodesOf(table) : get_by_code(code, table, TRUE).kind = "NotFound"

C7_Witness ==
  \E p \in Procs :
    /\ pc[p] = "done"
    /\ req[p].op = "get_by_code"
    /\ res[p].kind = "Ok"
    /\ Len(table) = 2
    /\ table[2].code = req[p].code
    /\ get_by_id(res[p].body[1].id, table, TRUE) = res[p]

\* C8: a coupon request makes a repository call only if it carries the
\* signed cookie, which exists only after an /authenticate with the
\* configured key; a request without it is refused and touches nothing;
\* /authenticate with another key answers Unauthorized and issues nothing.
C8_CouponEndpointsNeedSession ==
  [][ /\ \A p \in Procs :
           /\ (\E op \in CouponOps : Starts(p, op)) =>
                req'[p].cookie = "signed" /\ issued
           /\ (pc[p] = "idle" /\ res'[p].kind = "AuthError") =>
                table' = table /\ stat'[p] = NoStat /\ pc'[p] = "done"
           /\ (pc[p] = "idle" /\ req'[p].op = "authenticate" /\ req'[p].key # ApiKey) =>
                res'[p].kind = "Unauthorized" /\ issued' = issued
      /\ (issued' /\ ~issued) =>
           \E p \in Procs : req'[p].op = "authenticate" /\ req'[p].key = ApiKey
      /\ table' # table =>
           \E p \in Procs : pc'[p] # pc[p] /\ req'[p].cookie = "signed"
    ]_vars

\* a forged cookie is refused although a session cookie has been issued
C8_Witness ==
  \E p \in Procs :
    /\ pc[p] = "done"
    /\ req[p].op \in Mutating
    /\ req[p].cookie = "forged"
    /\ res[p].kind = "AuthError"
    /\ issued
    /\ table # <<>>

\* C9: the write of update and of delete_by_id does not look at the row
\* again: when the coupon was deleted after the pre-check, update's
\* statement changes no row and update returns success, and delete_by_id
\* returns success although its statements removed nothing.
C9_PrecheckIsNotTransactional ==
  [][ \A p \in Procs :
        /\ (/\ pc[p] = "upd_write"
            /\ Returns(p)
            /\ stat'[p].cause = ""
            /\ req[p].id \notin IdsOf(table)) =>
             res'[p].kind = "Ok" /\ table' = table
        /\ (/\ pc[p] = "del_id_2"
            /\ Returns(p)
            /\ stat'[p].cause = "") =>
             res'[p].kind = "Ok"
    ]_vars

\* both races have happened: an update returned success for a coupon
\* deleted under it, and two delete_by_id calls returned success for one row
C9_Witness == staleOk = {"update", "delete_by_id"}

\* C10: a successful update, delete_by_id or delete_by_code has made one
\* lookup and issued one write statement.
C10_OneLookupOneWrite ==
  \A p \in Procs :
    (/\ pc[p] = "done"
     /\ req[p].op \in {"update", "delete_by_id", "delete_by_code"}
     /\ res[p].kind = "Ok") =>
      stat[p].lookups = 1 /\ stat[p].writes = 1

====
